---- MODULE Spec2Model ----
(***************************************************************************)
(* A model of check_sites.py (MonitorGA): the per-URL change-detection     *)
(* cycle compare_and_notify_async, the batch loop main_async, the          *)
(* semaphore-guarded TelegramMessageManager, and the layout functions      *)
(* wrap_line and diff_to_image.                                            *)
(*                                                                         *)
(* Text is a sequence of symbols.  "a" is an ordinary character, "CR" and  *)
(* "LF" are the two line-ending characters, "SP" is a blank, "W" is a wide *)
(* character, "ERR" is the six characters "ERROR:", and "L0", "L1", "L2"   *)
(* are the character "<" written with 0, 1 and 2 levels of HTML entity     *)
(* escaping ("<", "&lt;", "&amp;lt;").                                     *)
(***************************************************************************)
EXTENDS Integers, Sequences, FiniteSets, TLC

VARIABLES
    snapshot,    \* data/<key>.txt per URL: [exists, text]
    diffImages,  \* URLs whose data/<key>_diff.png has been written
    log,         \* changes.log: sequence of [url, kind]
    sites,       \* the (type, url) pairs of sites.txt
    runPc,       \* main_async: "idle", "running", "done", "aborted"
    idx,         \* main_async: position of the for loop in the site list
    started,     \* positions for which this run called compare_and_notify_async
    cyc,         \* what the last call of compare_and_notify_async did
    report,      \* the sends main_async itself made in the last step
    prevBody,    \* per URL, the body fetched by its previous call, when that call completed
    runs,        \* number of runs of main_async started
    calls,       \* number of calls of compare_and_notify_async made
    sem,         \* TelegramMessageManager.semaphore: [value, waiters]
    taskPc,      \* per dispatched send call, where it is
    wl,          \* a call of wrap_line: arguments and result
    img          \* a call of diff_to_image: arguments and result

orchVars == <<snapshot, diffImages, log, sites, runPc, idx, started, cyc, report, prevBody,
              runs, calls>>
vars == <<snapshot, diffImages, log, sites, runPc, idx, started, cyc, report, prevBody,
          runs, calls, sem, taskPc, wl, img>>

\* ---------------------------------------------------------------- bounds

\* number of calls of compare_and_notify_async for the one URL
MaxCycles == 2
\* number of runs of main_async
MaxRuns == 2
\* number of send_message / send_photo calls dispatched concurrently
MaxTasks == 7
\* longest line handed to wrap_line
MaxLineLen == 4
\* widest max_width handed to wrap_line
MaxWrapWidth == 4
\* longest diff text handed to diff_to_image
MaxDiffLen == 4

RECURSIVE SeqsUpTo(_, _)
SeqsUpTo(S, n) ==
    IF n = 0 THEN {<<>>}
    ELSE LET shorter == SeqsUpTo(S, n - 1)
         IN shorter \cup {Append(t, c) : t \in {u \in shorter : Len(u) = n - 1}, c \in S}

Min(a, b) == IF a <= b THEN a ELSE b
Max(a, b) == IF a >= b THEN a ELSE b

\* ---------------------------------------------------------------- text

Whitespace == {"CR", "LF", "SP"}

\* str.replace("\r\n", "\n"): left to right, non-overlapping
RECURSIVE ReplaceCRLF(_)
ReplaceCRLF(s) ==
    IF s = <<>> THEN <<>>
    ELSE IF Len(s) >= 2 /\ s[1] = "CR" /\ s[2] = "LF"
         THEN <<"LF">> \o ReplaceCRLF(SubSeq(s, 3, Len(s)))
         ELSE <<s[1]>> \o ReplaceCRLF(Tail(s))

RECURSIVE lstrip(_)
lstrip(s) == IF s # <<>> /\ s[1] \in Whitespace THEN lstrip(Tail(s)) ELSE s

RECURSIVE rstrip(_)
rstrip(s) ==
    IF s # <<>> /\ s[Len(s)] \in Whitespace THEN rstrip(SubSeq(s, 1, Len(s) - 1)) ELSE s

strip(s) == lstrip(rstrip(s))

normalize_text(text) == strip(ReplaceCRLF(text))

\* str.splitlines(): a line ends at "\r\n", "\r" or "\n"; no empty last line
RECURSIVE SplitAcc(_, _, _)
SplitAcc(s, cur, acc) ==
    IF s = <<>> THEN (IF cur = <<>> THEN acc ELSE Append(acc, cur))
    ELSE IF Len(s) >= 2 /\ s[1] = "CR" /\ s[2] = "LF"
         THEN SplitAcc(SubSeq(s, 3, Len(s)), <<>>, Append(acc, cur))
         ELSE IF s[1] \in {"CR", "LF"}
              THEN SplitAcc(Tail(s), <<>>, Append(acc, cur))
              ELSE SplitAcc(Tail(s), Append(cur, s[1]), acc)

splitlines(s) == SplitAcc(s, <<>>, <<>>)

\* "\n".join(lines)
RECURSIVE JoinLines(_)
JoinLines(lines) ==
    IF lines = <<>> THEN <<>>
    ELSE IF Len(lines) = 1 THEN lines[1]
         ELSE lines[1] \o <<"LF">> \o JoinLines(Tail(lines))

\* Path.write_text on a POSIX host: "\n" is written as os.linesep = "\n"
write_text(s) == s

\* Path.read_text: universal newlines, "\r\n" and "\r" are read as "\n"
RECURSIVE read_text(_)
read_text(s) ==
    IF s = <<>> THEN <<>>
    ELSE IF Len(s) >= 2 /\ s[1] = "CR" /\ s[2] = "LF"
         THEN <<"LF">> \o read_text(SubSeq(s, 3, Len(s)))
         ELSE <<(IF s[1] = "CR" THEN "LF" ELSE s[1])>> \o read_text(Tail(s))

\* BeautifulSoup(html, "html.parser"): one level of entity escaping is decoded
ParseEntity(c) == IF c = "L2" THEN "L1" ELSE IF c = "L1" THEN "L0" ELSE c

\* soup.prettify(formatter="html"): "<" and "&" of a text node are escaped
EscapeEntity(c) == IF c = "L0" THEN "L1" ELSE IF c = "L1" THEN "L2" ELSE c

\* html.unescape: one level of entity escaping is decoded
unescape(c) == IF c = "L2" THEN "L1" ELSE IF c = "L1" THEN "L0" ELSE c

\* the loop that keeps at most two consecutive blank lines
RECURSIVE DropBlankRuns(_, _)
DropBlankRuns(lines, empty_count) ==
    IF lines = <<>> THEN <<>>
    ELSE IF strip(lines[1]) = <<>>
         THEN IF empty_count + 1 <= 2
              THEN <<lines[1]>> \o DropBlankRuns(Tail(lines), empty_count + 1)
              ELSE DropBlankRuns(Tail(lines), empty_count + 1)
         ELSE <<lines[1]>> \o DropBlankRuns(Tail(lines), 0)

format_html_content(html_content) ==
    LET parsed == [i \in 1..Len(html_content) |-> ParseEntity(html_content[i])]
        \* prettify strips the text node and ends it with a newline
        pretty == [i \in 1..Len(parsed) |-> EscapeEntity(parsed[i])]
        prettified == IF strip(pretty) = <<>> THEN <<>> ELSE strip(pretty) \o <<"LF">>
        formatted_html == [i \in 1..Len(prettified) |-> unescape(prettified[i])]
        lines == DropBlankRuns(splitlines(formatted_html), 0)
    IN normalize_text(JoinLines(lines))

\* ---------------------------------------------------------------- notifier destinations

Admin == "ADMIN_USER_ID"
Channel == "CHANNEL_ID"

\* one call of message_manager.send_message / send_photo and whether it returned
Send(dest, kind, text, fails) == [dest |-> dest, kind |-> kind, text |-> text, ok |-> ~fails]

\* ---------------------------------------------------------------- the cycle

Urls == {"X", "Y"}

\* the bodies a fetch returns: plain text, text with surrounding and interior
\* line endings of each kind, a run of blank lines, an escaped entity, a body
\* that itself begins with "ERROR:", and a body of white space only
Bodies ==
    { <<"a">>, <<"a", "a">>, <<"LF", "a", "CR">>, <<"LF">>,
      <<"a", "LF", "a">>, <<"a", "CR", "a">>, <<"a", "CR", "LF", "a">>,
      <<"a", "CR", "CR", "LF", "a">>, <<"a", "LF", "LF", "LF", "LF", "a">>,
      <<"L2">>, <<"a", "L2">>, <<"ERR", "a">> }

\* the bodies of a batch run
BatchBodies == { <<"a">>, <<"a", "a">>, <<"L2">> }

NoFile == [exists |-> FALSE, text |-> <<>>]
File(text) == [exists |-> TRUE, text |-> text]

\* what the fetcher can hand back: a body, or an exception
Fetches(B) == {[ok |-> TRUE, body |-> b] : b \in B} \cup {[ok |-> FALSE, body |-> <<>>]}
CycleFetches == Fetches(Bodies)
BatchFetches == Fetches(BatchBodies)

\* which of the calls made inside one call of compare_and_notify_async raise:
\* render - the comparison or diff_to_image (before the photo is sent),
\* notify - the alert, the first-capture message or the photo,
\* report - the comparison-failure report to the admin.
\* format_html_content and highlight_code catch their own exceptions; the
\* temporary files of highlight_code are used by nothing.
Faults == [render : BOOLEAN, notify : BOOLEAN, report : BOOLEAN]

\* returns the normalized body, or the text "ERROR: <exception>"
get_page_content(fetch) == IF fetch.ok THEN normalize_text(fetch.body) ELSE <<"ERR">>

\* a prefix test that never matches (the marker misspelt)
IsErrorContentMisspelt(content) == content # <<>> /\ content[1] = "Error"

\* content.startswith("ERROR:")
IsErrorContent(content) == content # <<>> /\ content[1] = "ERR"

\* the destination of the "first capture" message
FirstRunDest == Channel

\* the destination of the "cannot access" message
FetchAlertDest == Admin

\* old_content as the comparison sees it
OldContent(snap, is_text) ==
    LET old_content == read_text(snap.text)
    IN normalize_text(IF is_text THEN old_content ELSE format_html_content(old_content))

\* content after the optional formatting step
Formatted(content, is_text) == IF is_text THEN content ELSE format_html_content(content)

\* The whole of compare_and_notify_async(url, dynamic, is_text) on the stored
\* snapshot snap, with the fetch result and the raising calls as inputs.
\* "raised" says that an exception left the function.
compare_and_notify_async(url, is_text, snap, fetch, f) ==
    LET fetched == get_page_content(fetch)
        content == Formatted(fetched, is_text)
        written == File(write_text(content))
        fetchedLine == <<[url |-> url, kind |-> "fetched"]>>
    IN  IF IsErrorContent(fetched)
        THEN [outcome |-> "FetchFailed", content |-> fetched, snapshot |-> snap,
              sends |-> <<Send(FetchAlertDest, "fetch_alert", fetched, f.notify)>>,
              logged |-> IF f.notify THEN <<>> ELSE <<[url |-> url, kind |-> "fetch_failed"]>>,
              raised |-> f.notify, compared |-> FALSE, rendered |-> FALSE]
        ELSE IF ~snap.exists
        THEN [outcome |-> "FirstRun", content |-> content, snapshot |-> written,
              sends |-> <<Send(FirstRunDest, "first_capture", <<>>, f.notify)>>,
              logged |-> IF f.notify THEN <<>> ELSE fetchedLine,
              raised |-> f.notify, compared |-> FALSE, rendered |-> FALSE]
        ELSE IF OldContent(snap, is_text) = content
        THEN [outcome |-> "Unchanged", content |-> content, snapshot |-> written,
              sends |-> <<>>, logged |-> fetchedLine,
              raised |-> FALSE, compared |-> TRUE, rendered |-> FALSE]
        ELSE LET caught == f.render \/ f.notify
                 photo == IF f.render THEN <<>>
                          ELSE <<Send(Channel, "diff_photo", <<>>, f.notify)>>
                 failure == IF caught
                            THEN <<Send(Admin, "compare_failed", <<>>, f.report)>>
                            ELSE <<>>
                 escaped == caught /\ f.report
             IN [outcome |-> "Changed", content |-> content,
                 snapshot |-> IF escaped THEN snap ELSE written,
                 sends |-> photo \o failure,
                 logged |-> IF escaped THEN <<>> ELSE fetchedLine,
                 raised |-> escaped, compared |-> TRUE, rendered |-> ~f.render]

\* the record kept of a call
Cycle(url, is_text, snap, fetch, res, same) ==
    [url |-> url, is_text |-> is_text, fetchOk |-> fetch.ok, hadSnapshot |-> snap.exists,
     outcome |-> res.outcome, content |-> res.content, sends |-> res.sends,
     logged |-> Len(res.logged), raised |-> res.raised, compared |-> res.compared,
     rendered |-> res.rendered, sameBody |-> same]

NoCycle ==
    [url |-> "", is_text |-> FALSE, fetchOk |-> FALSE, hadSnapshot |-> FALSE,
     outcome |-> "none", content |-> <<>>, sends |-> <<>>,
     logged |-> 0, raised |-> FALSE, compared |-> FALSE,
     rendered |-> FALSE, sameBody |-> FALSE]

NoBody == [known |-> FALSE, body |-> <<>>]

SameBody(url, fetch) == fetch.ok /\ prevBody[url].known /\ prevBody[url].body = fetch.body

\* the effect of one call on the files and on the record of calls
CallEffect(url, is_text, fetch, f) ==
    LET res == compare_and_notify_async(url, is_text, snapshot[url], fetch, f)
    IN  /\ snapshot' = [snapshot EXCEPT ![url] = res.snapshot]
        /\ diffImages' = IF res.rendered THEN diffImages \cup {url} ELSE diffImages
        /\ log' = log \o res.logged
        /\ cyc' = Cycle(url, is_text, snapshot[url], fetch, res, SameBody(url, fetch))
        /\ prevBody' = [prevBody EXCEPT ![url] =
                           IF fetch.ok /\ ~res.raised
                           THEN [known |-> TRUE, body |-> fetch.body] ELSE NoBody]
        /\ calls' = calls + 1

\* ---------------------------------------------------------------- one URL, called repeatedly

NoWrap == [line |-> <<>>, max_width |-> 0, done |-> FALSE, out |-> <<>>]

NoImage ==
    [diff_text |-> <<>>, min_width |-> 0, max_width |-> 0, line_height |-> 0,
     done |-> FALSE, processed_lines |-> <<>>, line_numbers |-> <<>>,
     drawn |-> <<>>, width |-> 0, height |-> 0]

InitFiles ==
    /\ snapshot = [u \in Urls |-> NoFile]
    /\ diffImages = {}
    /\ log = <<>>
    /\ cyc = NoCycle
    /\ report = <<>>
    /\ prevBody = [u \in Urls |-> NoBody]
    /\ runs = 0
    /\ calls = 0
    /\ runPc = "idle"
    /\ idx = 1
    /\ started = {}

InitIdle ==
    /\ sem = [value |-> 0, waiters |-> <<>>]
    /\ taskPc = <<>>
    /\ wl = NoWrap
    /\ img = NoImage

InitCycle ==
    /\ InitFiles
    /\ InitIdle
    /\ sites \in {<<[type |-> t, url |-> "X"]>> : t \in {"txt", "static", "dynamic"}}

\* compare_and_notify_async(url, dynamic = type = "dynamic", is_text = type = "txt")
CallCompare ==
    /\ calls < MaxCycles
    /\ \E fetch \in CycleFetches, f \in Faults :
          CallEffect(sites[1].url, sites[1].type = "txt", fetch, f)
    /\ UNCHANGED <<sites, runPc, idx, started, report, runs, sem, taskPc, wl, img>>

NextCycle == CallCompare

SpecCycle == InitCycle /\ [][NextCycle]_vars

\* ---------------------------------------------------------------- main_async

SiteList == <<[type |-> "txt", url |-> "X"], [type |-> "dynamic", url |-> "Y"]>>

Init ==
    /\ InitFiles
    /\ InitIdle
    /\ sites = SiteList

\* what main_async finds when it starts
Configs == {"ok", "missing_env", "sites_unreadable"}

\* main_async up to the for loop: the settings check, the font check with its
\* warning to the admin, and the reading of sites.txt
StartRun ==
    /\ runPc # "running"
    /\ runs < MaxRuns
    /\ runs' = runs + 1
    /\ idx' = 1
    /\ started' = {}
    /\ \E cfg \in Configs, fontExists \in BOOLEAN, fontSendFails \in BOOLEAN,
          sitesSendFails \in BOOLEAN :
          LET fontWarning == IF fontExists THEN <<>>
                             ELSE <<Send(Admin, "font_missing", <<>>, fontSendFails)>>
              fontRaised == ~fontExists /\ fontSendFails
              sitesFailure == <<Send(Admin, "sites_failed", <<>>, sitesSendFails)>>
          IN  IF cfg = "missing_env"
              THEN report' = <<>> /\ runPc' = "config_failed"
              ELSE IF fontRaised
              THEN report' = fontWarning /\ runPc' = "aborted"
              ELSE IF cfg = "sites_unreadable"
              THEN /\ report' = fontWarning \o sitesFailure
                   /\ runPc' = IF sitesSendFails THEN "aborted" ELSE "config_failed"
              ELSE /\ report' = fontWarning
                   /\ runPc' = IF Len(sites) = 0 THEN "done" ELSE "running"
    /\ UNCHANGED <<snapshot, diffImages, log, sites, cyc, prevBody, calls, sem, taskPc, wl, img>>

\* what the for loop does after the body for position i: an exception that left
\* compare_and_notify_async is reported to the admin; an exception of that send
\* leaves main_async
AfterSite(i, raised, reportFails) ==
    IF raised /\ reportFails THEN "aborted"
    ELSE IF i = Len(sites) THEN "done" ELSE "running"

\* one iteration of the for loop of main_async
ProcessSite ==
    /\ runPc = "running"
    /\ idx <= Len(sites)
    /\ \E fetch \in BatchFetches, f \in Faults, reportFails \in BOOLEAN :
          LET site == sites[idx]
              res == compare_and_notify_async(site.url, site.type = "txt",
                                              snapshot[site.url], fetch, f)
          IN  /\ CallEffect(site.url, site.type = "txt", fetch, f)
              /\ report' = IF res.raised
                           THEN <<Send(Admin, "site_failed", <<>>, reportFails)>>
                           ELSE <<>>
              /\ runPc' = AfterSite(idx, res.raised, reportFails)
    /\ started' = started \cup {idx}
    /\ idx' = idx + 1
    /\ UNCHANGED <<sites, runs, sem, taskPc, wl, img>>

Next == StartRun \/ ProcessSite

Spec == Init /\ [][Next]_vars

\* ---------------------------------------------------------------- claims on the cycle

IsCall == cyc.outcome # "none"

SendsTo(dest) == {i \in 1..Len(cyc.sends) : cyc.sends[i].dest = dest}

\* the FetchFailed alert, the comparison-failure report, the per-site failure report
FailureNotices == {"fetch_alert", "compare_failed", "site_failed"}

AdminSendFailed(sends) ==
    \E i \in 1..Len(sends) :
        sends[i].dest = Admin /\ sends[i].kind \in FailureNotices /\ ~sends[i].ok

\* C1: a FirstRun call (fetch succeeded, no snapshot stored) persists the
\* normalized/formatted content as the snapshot, sends the "first capture"
\* notice to the admin destination and sends nothing to the broadcast destination.
C1_FirstRunAdminOnly ==
    cyc.outcome = "FirstRun" =>
        /\ snapshot[cyc.url] = File(cyc.content)
        /\ \E i \in SendsTo(Admin) : cyc.sends[i].kind = "first_capture"
        /\ SendsTo(Channel) = {}

\* C2: a call that fetches the same body as the call before it for that URL,
\* both fetches successful and a snapshot stored, sends no notification.
C2_SameBodySilent ==
    (IsCall /\ cyc.fetchOk /\ cyc.hadSnapshot /\ cyc.sameBody) => cyc.sends = <<>>

\* C3: a call whose fetch returns an error sends one alert with the error text
\* to the admin destination and nothing to the broadcast destination, leaves the
\* snapshot file as it was (absent if it was absent), and neither compares nor
\* renders.
C3_FetchFailed ==
    [][(calls' = calls + 1 /\ ~cyc'.fetchOk) =>
          /\ cyc'.outcome = "FetchFailed"
          /\ Len(cyc'.sends) = 1
          /\ cyc'.sends[1].dest = Admin
          /\ cyc'.sends[1].kind = "fetch_alert"
          /\ cyc'.sends[1].text = get_page_content([ok |-> FALSE, body |-> <<>>])
          /\ snapshot' = snapshot
          /\ diffImages' = diffImages
          /\ ~cyc'.compared /\ ~cyc'.rendered]_vars

\* a failed fetch for a URL whose snapshot is stored
C3_Witness ==
    /\ cyc.outcome = "FetchFailed" /\ ~cyc.fetchOk /\ cyc.hadSnapshot
    /\ snapshot[cyc.url].exists
    /\ Len(cyc.sends) = 1

\* C7: after a FirstRun, Unchanged or Changed call the stored snapshot equals
\* that call's normalized/formatted content, and a snapshot exists only for a
\* URL that some call fetched successfully.
C7_SnapshotIsLastContent ==
    /\ cyc.outcome \in {"FirstRun", "Unchanged", "Changed"} =>
           snapshot[cyc.url] = File(cyc.content)
    /\ \A u \in Urls : snapshot[u].exists => calls > 0

\* C8: every call appends exactly one line to the audit log, so after k calls
\* the log holds k lines.
C8_OneLinePerCall == Len(log) = calls

\* ---------------------------------------------------------------- claims on the batch

\* C4: a run that entered the for loop and has ended started a cycle for every
\* site of the list, in list order.
C4_EverySiteStarted ==
    /\ started \in {1..k : k \in 0..Len(sites)}
    /\ (runPc \in {"done", "aborted"} /\ started # {}) => started = 1..Len(sites)

\* C5: a failed send to the admin destination is not propagated: it does not
\* leave compare_and_notify_async, so no failure report follows it, and it does
\* not end the run.
C5_AdminFailureSwallowed ==
    /\ AdminSendFailed(cyc.sends) => ~cyc.raised
    /\ AdminSendFailed(report) => runPc # "aborted"

\* ---------------------------------------------------------------- TelegramMessageManager

\* asyncio.Semaphore(5); send_message and send_photo share it and differ only
\* in the call made and in the length of the delay
SemaphoreLimit == 5

Tasks == 1..MaxTasks

\* a locked() that lets one caller too many through
lockedOffByOne(s) == s.value < 0

\* Semaphore.locked(): no slot left, or somebody is already waiting for one
locked(s) == s.value = 0 \/ s.waiters # <<>>

\* Semaphore.release(): the slot goes to the first waiter if there is one
release(s) ==
    IF s.waiters # <<>> THEN [value |-> s.value, waiters |-> Tail(s.waiters)]
    ELSE [value |-> s.value + 1, waiters |-> <<>>]

\* the task pcs after task t left the guarded section in state pc
Leave(t, pc) ==
    IF sem.waiters # <<>>
    THEN [taskPc EXCEPT ![t] = pc, ![Head(sem.waiters)] = "sending"]
    ELSE [taskPc EXCEPT ![t] = pc]

InitSend ==
    /\ InitFiles
    /\ sites = SiteList
    /\ sem = [value |-> SemaphoreLimit, waiters |-> <<>>]
    /\ taskPc = [t \in Tasks |-> "new"]
    /\ wl = NoWrap
    /\ img = NoImage

\* "async with self.semaphore": Semaphore.acquire()
Enter(t) ==
    /\ taskPc[t] = "new"
    /\ IF locked(sem)
       THEN /\ sem' = [sem EXCEPT !.waiters = Append(@, t)]
            /\ taskPc' = [taskPc EXCEPT ![t] = "waiting"]
       ELSE /\ sem' = [sem EXCEPT !.value = @ - 1]
            /\ taskPc' = [taskPc EXCEPT ![t] = "sending"]
    /\ UNCHANGED <<orchVars, wl, img>>

\* bot.send_message / bot.send_photo returns; asyncio.sleep starts
SendReturns(t) ==
    /\ taskPc[t] = "sending"
    /\ taskPc' = [taskPc EXCEPT ![t] = "sleeping"]
    /\ UNCHANGED <<orchVars, sem, wl, img>>

\* the call (or open(photo_path)) raises: logged, re-raised, the slot released
SendRaises(t) ==
    /\ taskPc[t] = "sending"
    /\ sem' = release(sem)
    /\ taskPc' = Leave(t, "failed")
    /\ UNCHANGED <<orchVars, wl, img>>

\* the delay after the send is over; the slot is released
DelayEnds(t) ==
    /\ taskPc[t] = "sleeping"
    /\ sem' = release(sem)
    /\ taskPc' = Leave(t, "done")
    /\ UNCHANGED <<orchVars, wl, img>>

NextSend == \E t \in Tasks : Enter(t) \/ SendReturns(t) \/ SendRaises(t) \/ DelayEnds(t)

SpecSend == InitSend /\ [][NextSend]_vars

\* the calls inside the guarded section: the outbound send and its delay
InFlight == {t \in Tasks : taskPc[t] \in {"sending", "sleeping"}}

\* C6: at every moment at most 5 send calls are inside the guarded section,
\* also after sends that failed; a failed send leaves every other call where it
\* was, except the waiter that receives its slot.
C6_BoundedInFlight ==
    /\ Cardinality(InFlight) <= 5
    /\ \A t \in Tasks : taskPc[t] = "waiting" <=> \E i \in 1..Len(sem.waiters) : sem.waiters[i] = t

\* five calls in flight after a failed send, with a call waiting for a slot
C6_Witness ==
    /\ Cardinality(InFlight) = 5
    /\ \E t \in Tasks : taskPc[t] = "failed"
    /\ \E t \in Tasks : taskPc[t] = "waiting"

\* ---------------------------------------------------------------- wrap_line

\* font.getbbox(text)[2] - font.getbbox(text)[0]: the advance widths add up;
\* "W" is a wide glyph
RECURSIVE Width(_)
Width(text) ==
    IF text = <<>> THEN 0
    ELSE (IF text[1] = "W" THEN 2 ELSE 1) + Width(Tail(text))

\* the first loop: every white space character is a word of its own
RECURSIVE SplitWords(_, _, _)
SplitWords(line, current_word, words) ==
    IF line = <<>>
    THEN (IF current_word # <<>> THEN Append(words, current_word) ELSE words)
    ELSE IF line[1] \in Whitespace
         THEN SplitWords(Tail(line), <<>>,
                         (IF current_word # <<>> THEN Append(words, current_word) ELSE words)
                             \o << <<line[1]>> >>)
         ELSE SplitWords(Tail(line), Append(current_word, line[1]), words)

\* a break test that forgets to ask whether the current line is empty
MustBreakEvenIfEmpty(current_line, test_width, max_width) == test_width > max_width

\* "if current_line and test_width > max_width"
MustBreak(current_line, test_width, max_width) ==
    current_line # <<>> /\ test_width > max_width

\* the second loop and the final flush
RECURSIVE WrapLoop(_, _, _, _)
WrapLoop(words, current_line, wrapped_lines, max_width) ==
    IF words = <<>>
    THEN (IF current_line # <<>> THEN Append(wrapped_lines, rstrip(current_line))
          ELSE wrapped_lines)
    ELSE LET test_line == current_line \o words[1]
         IN  IF MustBreak(current_line, Width(test_line), max_width)
             THEN WrapLoop(Tail(words), words[1],
                           Append(wrapped_lines, rstrip(current_line)), max_width)
             ELSE WrapLoop(Tail(words), test_line, wrapped_lines, max_width)

wrap_line(line, max_width) == WrapLoop(SplitWords(line, <<>>, <<>>), <<>>, <<>>, max_width)

LineChars == {"a", "W", "SP"}
Lines == SeqsUpTo(LineChars, MaxLineLen)

InitWrap ==
    /\ InitFiles
    /\ sites = SiteList
    /\ sem = [value |-> 0, waiters |-> <<>>]
    /\ taskPc = <<>>
    /\ img = NoImage
    /\ wl \in {[line |-> l, max_width |-> w, done |-> FALSE, out |-> <<>>] :
                  l \in Lines, w \in 0..MaxWrapWidth}

CallWrapLine ==
    /\ ~wl.done
    /\ wl' = [wl EXCEPT !.done = TRUE, !.out = wrap_line(wl.line, wl.max_width)]
    /\ UNCHANGED <<orchVars, sem, taskPc, img>>

NextWrap == CallWrapLine

SpecWrap == InitWrap /\ [][NextWrap]_vars

\* the line is one word: no white space in it, and not empty
SingleToken(line) == line # <<>> /\ \A i \in 1..Len(line) : line[i] \notin Whitespace

\* C9 as claimed: a line that fits, the empty line included, comes back as one
\* line, the input without its trailing white space; a single token wider than
\* max_width comes back as one line, unsplit.
C9_AsClaimed ==
    wl.done =>
        /\ Width(wl.line) <= wl.max_width => wl.out = <<rstrip(wl.line)>>
        /\ (SingleToken(wl.line) /\ Width(wl.line) > wl.max_width) => wl.out = <<wl.line>>

\* C9 amended: a non-empty line that fits comes back as one line, the input
\* without its trailing white space (the empty string for a line of white space
\* only); the empty line comes back as no line at all; a single token wider than
\* max_width comes back as one line, unsplit.
C9_WrapLine ==
    wl.done =>
        /\ (wl.line # <<>> /\ Width(wl.line) <= wl.max_width) => wl.out = <<rstrip(wl.line)>>
        /\ wl.line = <<>> => wl.out = <<>>
        /\ (SingleToken(wl.line) /\ Width(wl.line) > wl.max_width) => wl.out = <<wl.line>>

\* a fitting line whose trailing blank is trimmed, and an overflowing single token
C9_Witness ==
    /\ wl.done
    /\ \/ /\ Width(wl.line) <= wl.max_width
          /\ rstrip(wl.line) # wl.line /\ rstrip(wl.line) # <<>>
          /\ wl.out = <<rstrip(wl.line)>>
       \/ /\ SingleToken(wl.line) /\ Width(wl.line) > wl.max_width /\ wl.max_width > 0
          /\ wl.out = <<wl.line>>

\* ---------------------------------------------------------------- diff_to_image

left_margin == 50
right_margin == 10
\* the hard cap of the canvas height
HeightCap == 2000
\* the vertical padding added to the height
HeightPad == 20
\* the margin added to the width of the widest line number
LineNumberPad == 20

\* number of characters of str(n), n >= 0
RECURSIVE Digits(_)
Digits(n) == IF n < 10 THEN 1 ELSE 1 + Digits(n \div 10)

\* [line_count] + [""] * (len(wrapped_lines) - 1); "" is written 0
RECURSIVE Blanks(_)
Blanks(n) == IF n <= 0 THEN <<>> ELSE <<0>> \o Blanks(n - 1)

\* the loop over diff_text.splitlines(): returns [processed_lines, line_numbers]
RECURSIVE LayoutLoop(_, _, _, _, _)
LayoutLoop(lines, line_count, processed_lines, line_numbers, max_content_width) ==
    IF lines = <<>>
    THEN [processed_lines |-> processed_lines, line_numbers |-> line_numbers]
    ELSE LET line == lines[1]
             n == line_count + 1
         IN  IF Width(line) > max_content_width
             THEN LET wrapped_lines == wrap_line(line, max_content_width)
                  IN  LayoutLoop(Tail(lines), n, processed_lines \o wrapped_lines,
                                 line_numbers \o <<n>> \o Blanks(Len(wrapped_lines) - 1),
                                 max_content_width)
             ELSE LayoutLoop(Tail(lines), n, Append(processed_lines, line),
                             Append(line_numbers, n), max_content_width)

\* max([num for num in line_numbers if num != ""])
RECURSIVE MaxOf(_)
MaxOf(nums) == IF nums = <<>> THEN 0 ELSE Max(nums[1], MaxOf(Tail(nums)))

\* the width of the gutter: a digit is one unit wide
LineNumberWidth(line_numbers) ==
    IF line_numbers # <<>> THEN Digits(MaxOf(line_numbers)) + LineNumberPad ELSE 0

\* the loop that measures the laid-out lines
RECURSIVE MaxLineWidth(_)
MaxLineWidth(lines) == IF lines = <<>> THEN 0 ELSE Max(Width(lines[1]), MaxLineWidth(Tail(lines)))

\* min((line_height * len(processed_lines)) + 20, 2000)
CanvasHeight(line_height, count) == Min(line_height * count + HeightPad, HeightCap)

\* a canvas width that is only raised to min_width
CanvasWidthNoUpperClamp(max_line_width, line_number_width, min_width, max_width) ==
    Max(max_line_width + left_margin + right_margin + line_number_width, min_width)

\* min(max(max_line_width + left_margin + right_margin + line_number_width, min_width), max_width)
CanvasWidth(max_line_width, line_number_width, min_width, max_width) ==
    Min(Max(max_line_width + left_margin + right_margin + line_number_width, min_width),
        max_width)

\* the colour of a line, named by the kind it stands for: the line's own first
\* character decides
LineKind(line) ==
    IF line # <<>> /\ line[1] = "+" THEN "added"
    ELSE IF line # <<>> /\ line[1] = "-" THEN "removed"
    ELSE IF line # <<>> /\ line[1] = "@" THEN "hunk"
    ELSE "context"

\* clean_line: a leading "+", "-", "@" or blank is dropped from a line of more
\* than one character
CleanLine(line) ==
    IF line # <<>> /\ line[1] \in {"+", "-", "@", "SP"} /\ Len(line) > 1
    THEN Tail(line) ELSE line

\* the loop that draws the text: one draw.text call per laid-out line
DrawLines(processed_lines) ==
    [i \in 1..Len(processed_lines) |->
        [kind |-> LineKind(processed_lines[i]), text |-> CleanLine(processed_lines[i])]]

\* the layout diff_to_image computes, and the lines it draws
diff_to_image(diff_text, min_width, max_width, line_height) ==
    LET max_content_width == max_width - left_margin - right_margin
        lay == LayoutLoop(splitlines(diff_text), 0, <<>>, <<>>, max_content_width)
    IN  [processed_lines |-> lay.processed_lines,
         line_numbers |-> lay.line_numbers,
         drawn |-> DrawLines(lay.processed_lines),
         height |-> CanvasHeight(line_height, Len(lay.processed_lines)),
         width |-> CanvasWidth(MaxLineWidth(lay.processed_lines),
                               LineNumberWidth(lay.line_numbers), min_width, max_width)]

DiffChars == {"a", "SP", "LF", "+", "-", "@"}
DiffTexts == SeqsUpTo(DiffChars, MaxDiffLen)

\* max_width: one that leaves two units for the content, and a roomy one
MaxWidths == {left_margin + right_margin + 2, left_margin + right_margin + 30}
\* min_width: below, between and above the values of max_width
MinWidths == {left_margin, left_margin + right_margin + 24, left_margin + right_margin + 40}
\* the height of "A" in the font plus line_height_pad: an ordinary and a tall line
LineHeights == {24, 700}

InitImage ==
    /\ InitFiles
    /\ sites = SiteList
    /\ sem = [value |-> 0, waiters |-> <<>>]
    /\ taskPc = <<>>
    /\ wl = NoWrap
    /\ img \in {[NoImage EXCEPT !.diff_text = t, !.min_width = lo, !.max_width = hi,
                                !.line_height = h] :
                   t \in DiffTexts, lo \in MinWidths, hi \in MaxWidths, h \in LineHeights}

CallDiffToImage ==
    /\ ~img.done
    /\ LET r == diff_to_image(img.diff_text, img.min_width, img.max_width, img.line_height)
       IN  img' = [img EXCEPT !.done = TRUE,
                              !.processed_lines = r.processed_lines,
                              !.line_numbers = r.line_numbers,
                              !.drawn = r.drawn,
                              !.width = r.width, !.height = r.height]
    /\ UNCHANGED <<orchVars, sem, taskPc, wl>>

NextImage == CallDiffToImage

SpecImage == InitImage /\ [][NextImage]_vars

\* C10: with min_width <= max_width the canvas is at most 2000 high and its
\* width lies in [min_width, max_width], whatever the diff text.
C10_CanvasBounds ==
    (img.done /\ img.min_width <= img.max_width) =>
        /\ img.height <= 2000
        /\ img.min_width <= img.width
        /\ img.width <= img.max_width

\* a diff whose lines were wrapped, whose uncapped height exceeds the cap and
\* whose widest line would exceed max_width
C10_Witness ==
    /\ img.done /\ img.min_width <= img.max_width
    /\ Len(img.processed_lines) > Len(splitlines(img.diff_text))
    /\ img.line_height * Len(img.processed_lines) + 20 > 2000
    /\ img.height = 2000
    /\ img.width = img.max_width

\* the diff line a laid-out line came from: the last line number at or before it
RECURSIVE SourceNumber(_, _)
SourceNumber(line_numbers, i) ==
    IF i = 0 THEN 0
    ELSE IF line_numbers[i] # 0 THEN line_numbers[i] ELSE SourceNumber(line_numbers, i - 1)

\* the laid-out lines that continue a wrapped diff line
Continuations == {i \in 1..Len(img.line_numbers) : img.line_numbers[i] = 0}

\* C11: the list of line numbers is as long as the list of laid-out lines, each
\* diff line's number stands at exactly one laid-out line, the first of those
\* it was wrapped into, and every laid-out line of a wrapped diff line is
\* drawn in the colour of that diff line's kind, a continuation with all of
\* its own characters.
C11_WrappedKeepKind ==
    img.done =>
        LET source == splitlines(img.diff_text)
        IN  /\ Len(img.line_numbers) = Len(img.processed_lines)
            /\ Len(img.drawn) = Len(img.processed_lines)
            /\ \A n \in 1..Len(source) :
                   Cardinality({i \in 1..Len(img.line_numbers) : img.line_numbers[i] = n}) = 1
            /\ \A i \in 1..Len(img.line_numbers) :
                   LET n == SourceNumber(img.line_numbers, i)
                   IN  /\ n \in 1..Len(source)
                       /\ img.drawn[i].kind = LineKind(source[n])
                       /\ i \in Continuations => img.drawn[i].text = img.processed_lines[i]

====
